---- MODULE Spec2Model ----
(***************************************************************************)
(* A model of the friendly-parakeet retrieval pipeline: the chunker        *)
(* (chunker.py), the page extraction and the project segmentation          *)
(* (pdf_reader.py), the TF-IDF index search (index.py) and the             *)
(* orchestrator with its construction (agent.py).                          *)
(*                                                                         *)
(* Strings are sequences of one-character strings.  Each component has its *)
(* own specification over the shared variables: SpecChunk, SpecGroup,      *)
(* SpecAgent, SpecRepeat (one agent over repeated calls), SpecLoad and     *)
(* SpecBuild; Spec is their union.                                         *)
(***************************************************************************)
EXTENDS Integers, Sequences, FiniteSets, TLC

\* ---------------------------------------------------------------- bounds
\* Longest page text given to the chunker.
MaxLen == 4
\* Largest max_characters / overlap argument tried (the smallest is -1).
MaxArg == 3
\* Longest page sequence given to group_pages_by_project.
MaxPages == 3
\* Most documents an agent holds, over all its project indexes.
MaxDocs == 3
\* Largest top_k argument tried (the smallest is -1).
MaxTopK == 2
\* Cosine similarities are multiples of a quarter: 0, 1/4, ..., MaxScore/4.
MaxScore == 2
\* Memory available to the chunk list, in chunks: more than any terminating
\* run over a text of at most 2 * MaxLen characters emits (at most one chunk
\* per character).
MaxChunks == 2 * MaxLen + 2

\* ------------------------------------------------------- string helpers
SeqsUpTo(S, n) == UNION {[1..k -> S] : k \in 0..n}

\* Python s[a:b] for 0 <= a, 0 <= b.
Slice(s, a, b) == SubSeq(s, a + 1, IF b < Len(s) THEN b ELSE Len(s))

\* Python s[n:] for n >= 0.
DropFirst(s, n) == SubSeq(s, n + 1, Len(s))

Min(a, b) == IF a < b THEN a ELSE b
Max(a, b) == IF a > b THEN a ELSE b

VARIABLES
    \* split_page_into_chunks: arguments, locals, position
    page, max_characters, overlap, text, start, idx, chunks, split_pc,
    \* group_pages_by_project: the pages consumed so far, locals, position
    pages, projects, current_project, group_pc,
    \* Agent: its fields; Agent.answer: arguments, locals, position; the
    \* generate calls made during the current answer call
    project_indexes, gemini, question, top_k, responses, next_project,
    similarities, search_results, generate_calls, answer_pc,
    \* what the fitted TF-IDF space of every index gives for a question, and
    \* the first answer call that returned, with what it returned
    fitted, previous,
    \* load_pdf: whether the path exists, the number of physical pages of the
    \* PDF, the outcome of the last extract_text call, the pages list, and
    \* where the call is
    path_exists, page_count, extracted, load_pages, load_pc,
    \* Agent.from_pdf / Agent.from_pages: the entry point, from_pdf's section
    \* argument and its pages, the arguments, the (project, page) pairs not yet chunked,
    \* the locals chunks, documents and project_documents, and where the
    \* call is
    build_entry, section, build_pages, pages_by_project, chunk_size, chunk_overlap,
    pending, project_chunks, built_documents, project_documents, build_pc

chunkVars == <<page, max_characters, overlap, text, start, idx, chunks, split_pc>>
groupVars == <<pages, projects, current_project, group_pc>>
agentVars == <<project_indexes, gemini, question, top_k, responses, next_project,
               similarities, search_results, generate_calls, answer_pc, fitted, previous>>
loadVars == <<path_exists, page_count, extracted, load_pages, load_pc>>
buildVars == <<build_entry, section, build_pages, pages_by_project, chunk_size, chunk_overlap,
               pending, project_chunks, built_documents, project_documents, build_pc>>
notChunkVars == <<groupVars, agentVars, loadVars, buildVars>>
notGroupVars == <<chunkVars, agentVars, loadVars, buildVars>>
notAgentVars == <<chunkVars, groupVars, loadVars, buildVars>>
notLoadVars == <<chunkVars, groupVars, agentVars, buildVars>>
vars == <<chunkVars, groupVars, agentVars, loadVars, buildVars>>

\* ================================================================ chunker
ChunkAlphabet == {"a", "b"}

\* chunker.py Chunk
Chunk(content, page_number, index) ==
    [content |-> content, page_number |-> page_number, index |-> index]

\* No agent was built.
AgentIdle ==
    /\ project_indexes = <<>>
    /\ gemini = "mock"
    /\ question = <<>>
    /\ top_k = 0
    /\ responses = <<>>
    /\ next_project = 0
    /\ similarities = <<>>
    /\ search_results = <<>>
    /\ generate_calls = <<>>
    /\ answer_pc = "none"
    /\ fitted = <<>>
    /\ previous = <<>>

\* The segmentation is not running.
\* The outcome of page.extract_text(): a text, None, or an exception.
Extracted(kind, t) == [kind |-> kind, text |-> t]

LoadIdle ==
    /\ path_exists = FALSE
    /\ page_count = 0
    /\ extracted = Extracted("unset", <<>>)
    /\ load_pages = <<>>
    /\ load_pc = "idle"

BuildIdle ==
    /\ build_entry = "none"
    /\ section = <<>>
    /\ build_pages = <<>>
    /\ pages_by_project = <<>>
    /\ chunk_size = 1
    /\ chunk_overlap = 0
    /\ pending = <<>>
    /\ project_chunks = <<>>
    /\ built_documents = <<>>
    /\ project_documents = <<>>
    /\ build_pc = "idle"

GroupIdle ==
    /\ pages = <<>>
    /\ projects = <<>>
    /\ current_project = <<>>
    /\ group_pc = "idle"

\* A call split_page_into_chunks(page, max_characters=m, overlap=o) about to run.
SplitInit ==
    /\ page \in [number : 1..2, text : SeqsUpTo(ChunkAlphabet, MaxLen)]
    /\ max_characters \in -1..MaxArg
    /\ overlap \in -1..MaxArg
    /\ text = <<>>
    /\ start = 0
    /\ idx = 0
    /\ chunks = <<>>
    /\ split_pc = "call"
    /\ GroupIdle
    /\ AgentIdle

\* Lines 37-40: the argument checks raise ValueError.
SplitReject ==
    /\ split_pc = "call"
    /\ max_characters <= 0 \/ overlap < 0
    /\ split_pc' = "ValueError"
    /\ UNCHANGED <<page, max_characters, overlap, text, start, idx, chunks>>
    /\ UNCHANGED notChunkVars

\* Lines 42-44: an empty page text returns [].
SplitEmpty ==
    /\ split_pc = "call"
    /\ ~(max_characters <= 0 \/ overlap < 0)
    /\ page.text = <<>>
    /\ text' = page.text
    /\ split_pc' = "returned"
    /\ UNCHANGED <<page, max_characters, overlap, start, idx, chunks>>
    /\ UNCHANGED notChunkVars

\* Lines 42-48: the locals are set up and the loop is entered.
SplitEnter ==
    /\ split_pc = "call"
    /\ ~(max_characters <= 0 \/ overlap < 0)
    /\ page.text # <<>>
    /\ text' = page.text
    /\ chunks' = <<>>
    /\ start' = 0
    /\ idx' = 0
    /\ split_pc' = "loop"
    /\ UNCHANGED <<page, max_characters, overlap>>
    /\ UNCHANGED notChunkVars

\* Mutant of ChunkEnd: the chunk takes one character more.
ChunkEndOneMore == Min(Len(text), start + max_characters + 1)

\* Line 50.
ChunkEnd == Min(Len(text), start + max_characters)

\* Line 56.
NextStart(end) == Max(0, end - overlap)

\* Lines 49-57: one iteration of the while loop; the iteration that emits the
\* chunk ending at the text's end breaks and returns.
SplitIterate ==
    /\ split_pc = "loop"
    /\ Len(chunks) < MaxChunks
    /\ LET end == ChunkEnd
           content == Slice(text, start, end)
       IN  /\ chunks' = Append(chunks, Chunk(content, page.number, idx))
           /\ idx' = idx + 1
           /\ IF end = Len(text) \/ ~(NextStart(end) < Len(text))
                 THEN /\ split_pc' = "returned"
                      /\ start' = IF end = Len(text) THEN start ELSE NextStart(end)
                 ELSE /\ split_pc' = "loop"
                      /\ start' = NextStart(end)
    /\ UNCHANGED <<page, max_characters, overlap, text>>
    /\ UNCHANGED notChunkVars

\* Line 52 when the chunk list has outgrown memory: the append raises
\* MemoryError.  Only a loop that no longer advances gets here.
SplitExhaust ==
    /\ split_pc = "loop"
    /\ Len(chunks) >= MaxChunks
    /\ split_pc' = "MemoryError"
    /\ UNCHANGED <<page, max_characters, overlap, text, start, idx, chunks>>
    /\ UNCHANGED notChunkVars

SplitNext == SplitReject \/ SplitEmpty \/ SplitEnter \/ SplitIterate \/ SplitExhaust

InitChunk == SplitInit /\ LoadIdle /\ BuildIdle

SpecChunk == InitChunk /\ [][SplitNext]_vars

\* ------------------------------------------------------ chunker properties
\* The call was accepted by the argument checks of lines 37-40.
SplitAccepted == max_characters > 0 /\ overlap >= 0

\* The configurations the specification calls invalid.
InvalidConfiguration == max_characters <= 0 \/ overlap < 0 \/ overlap >= max_characters

RECURSIVE RebuildTail(_, _, _)
RebuildTail(cs, o, i) ==
    IF i > Len(cs) THEN <<>>
    ELSE DropFirst(cs[i].content, o) \o RebuildTail(cs, o, i + 1)

\* The first chunk's content followed by every later chunk's content without
\* its first o characters.
Rebuild(cs, o) == IF cs = <<>> THEN <<>> ELSE cs[1].content \o RebuildTail(cs, o, 2)

\* C1: for every page with non-empty text and every accepted configuration,
\* the call ends by returning chunks which, joined with the first `overlap`
\* characters of every later chunk removed, are exactly the page text.
C1_RebuildsPageText ==
    (SplitAccepted /\ page.text # <<>> /\ split_pc \notin {"call", "loop"})
        => (split_pc = "returned" /\ Rebuild(chunks, overlap) = page.text)

\* C2: on every loop iteration that does not emit the chunk ending at the
\* text's end, the cursor `start` strictly increases (so the loop terminates).
C2_CursorAdvances ==
    [][(SplitIterate /\ split_pc' = "loop") => start' > start]_vars

\* C3: every invalid configuration (max_characters <= 0, overlap < 0 or
\* overlap >= max_characters) is rejected with ValueError as soon as the call
\* runs, before any chunk is emitted.
C3_InvalidConfigurationRejected ==
    (InvalidConfiguration /\ split_pc # "call")
        => (split_pc = "ValueError" /\ chunks = <<>>)

\* ==================================================== project segmentation
\* A page text is a sequence of characters; " " stands for any whitespace
\* character other than a newline.
IsSpace(c) == c \in {" ", "\n"}

\* pdf_reader.py Page
Page(number, t) == [number |-> number, text |-> t]

\* str.strip(): s without its leading and trailing whitespace.
RECURSIVE StripLeft(_)
StripLeft(s) ==
    IF s # <<>> /\ IsSpace(Head(s)) THEN StripLeft(Tail(s)) ELSE s

RECURSIVE StripRight(_)
StripRight(s) ==
    IF s # <<>> /\ IsSpace(s[Len(s)]) THEN StripRight(SubSeq(s, 1, Len(s) - 1)) ELSE s

Strip(s) == StripRight(StripLeft(s))

\* ^ under re.M: position i starts a line of t.
LineStart(t, i) == i = 1 \/ t[i - 1] = "\n"

\* \s* taken greedily from position i: the first position not holding whitespace.
RECURSIVE SkipSpace(_, _)
SkipSpace(t, i) ==
    IF i <= Len(t) /\ IsSpace(t[i]) THEN SkipSpace(t, i + 1) ELSE i

\* .+ taken greedily from position i up to $: the position after the line's end.
RECURSIVE LineEnd(_, _)
LineEnd(t, i) ==
    IF i <= Len(t) /\ t[i] # "\n" THEN LineEnd(t, i + 1) ELSE i

\* str.lower() on the letters of the keywords projet, project and section.
Lower(c) ==
    CASE c = "P" -> "p" [] c = "R" -> "r" [] c = "O" -> "o" [] c = "J" -> "j"
      [] c = "E" -> "e" [] c = "C" -> "c" [] c = "T" -> "t" [] c = "S" -> "s"
      [] c = "I" -> "i" [] c = "N" -> "n" [] OTHER -> c

\* t holds the word w at position i, in any letter case.
WordAt(t, i, w) ==
    /\ i + Len(w) - 1 <= Len(t)
    /\ \A k \in 1..Len(w) : Lower(t[i + k - 1]) = w[k]

\* (projet|project) under re.I at position i: the length of the keyword
\* matched, 0 if none.
KeywordAt(t, i) ==
    IF WordAt(t, i, <<"p", "r", "o", "j", "e", "t">>) THEN 6
    ELSE IF WordAt(t, i, <<"p", "r", "o", "j", "e", "c", "t">>) THEN 7
    ELSE 0

\* [:\-]
IsSeparator(c) == c \in {":", "-"}

\* The pattern (?im)^(projet|project)\s*[:\-]\s*(.+)$ tried at position i.
\* The second \s* gives back whitespace until (.+) finds a character of the
\* line to start on.  group2 is the text of the second group, stop the
\* position after the match.
MatchAt(t, i) ==
    LET none == [found |-> FALSE, group2 |-> <<>>, stop |-> i]
    IN  IF ~(i <= Len(t) /\ LineStart(t, i) /\ KeywordAt(t, i) > 0) THEN none
        ELSE LET sep == SkipSpace(t, i + KeywordAt(t, i))
             IN  IF ~(sep <= Len(t) /\ IsSeparator(t[sep])) THEN none
                 ELSE LET greedy == SkipSpace(t, sep + 1)
                          begins == {k \in (sep + 1)..greedy : k <= Len(t) /\ t[k] # "\n"}
                      IN  IF begins = {} THEN none
                          ELSE LET from == CHOOSE k \in begins : \A j \in begins : j <= k
                                   stop == LineEnd(t, from)
                               IN  [found |-> TRUE,
                                    group2 |-> SubSeq(t, from, stop - 1),
                                    stop |-> stop]

\* compiled.finditer(page.text): group 2 of the non-overlapping matches, in
\* order, scanning from position i.
RECURSIVE FindIter(_, _)
FindIter(t, i) ==
    IF i > Len(t) THEN <<>>
    ELSE LET m == MatchAt(t, i)
         IN  IF m.found THEN <<m.group2>> \o FindIter(t, m.stop)
             ELSE FindIter(t, i + 1)

\* \w: a character that is not whitespace or punctuation.
IsWordChar(c) == c \notin {" ", "\n", ":", "-", "."}

\* \b before position i of t (i = Len(t) + 1: at the end).
WordBoundary(t, i) ==
    (i > 1 /\ IsWordChar(t[i - 1])) # (i <= Len(t) /\ IsWordChar(t[i]))

\* The pattern (?i)\bsection\s*<wanted>\b tried at position i; \s* gives
\* back whitespace for the section text to start on.
SectionAt(t, i, wanted) ==
    /\ WordBoundary(t, i)
    /\ WordAt(t, i, <<"s", "e", "c", "t", "i", "o", "n">>)
    /\ \E j \in (i + 7)..SkipSpace(t, i + 7) :
        /\ j + Len(wanted) - 1 <= Len(t)
        /\ \A k \in 1..Len(wanted) : Lower(t[j + k - 1]) = Lower(wanted[k])
        /\ WordBoundary(t, j + Len(wanted))

\* section.replace('.', '')
RECURSIVE RemoveDots(_)
RemoveDots(wanted) ==
    IF wanted = <<>> THEN <<>>
    ELSE IF Head(wanted) = "." THEN RemoveDots(Tail(wanted))
    ELSE <<Head(wanted)>> \o RemoveDots(Tail(wanted))

\* Page.contains_section (lines 20-23).
ContainsSection(t, wanted) ==
    \E i \in 1..Len(t) : SectionAt(t, i, wanted) \/ SectionAt(t, i, RemoveDots(wanted))

RECURSIVE KeepSection(_, _)
KeepSection(ps, wanted) ==
    IF ps = <<>> THEN <<>>
    ELSE IF ContainsSection(Head(ps).text, wanted)
            THEN <<Head(ps)>> \o KeepSection(Tail(ps), wanted)
            ELSE KeepSection(Tail(ps), wanted)

\* filter_pages_by_section (lines 47-57); the section argument is <<>> for
\* None and <<text>> for a text.
FilterPagesBySection(ps, wanted) ==
    IF wanted = <<>> THEN ps ELSE KeepSection(ps, wanted[1])

\* Mutant of LastMatch: the first heading of the page wins.
FirstMatch(matches) == matches[1]

\* Line 90: matches[-1].
LastMatch(matches) == matches[Len(matches)]

\* The default_project argument ("Général").
default_project == <<"G", "é", "n", "é", "r", "a", "l">>

\* A dict is the sequence of its entries in insertion order.
DictKeys(d) == [i \in 1..Len(d) |-> d[i].key]
HasKey(d, k) == \E i \in 1..Len(d) : d[i].key = k
DictGet(d, k) == (CHOOSE i \in 1..Len(d) : d[i].key = k)

\* Mutant of SetDefault: d[k] = [], which empties the list of a key d holds.
SetDefaultOverwrite(d, k) ==
    IF HasKey(d, k)
        THEN [i \in 1..Len(d) |-> IF d[i].key = k THEN [key |-> k, value |-> <<>>] ELSE d[i]]
        ELSE Append(d, [key |-> k, value |-> <<>>])

\* dict.setdefault(k, []): a new key is appended with an empty list.
SetDefault(d, k) ==
    IF HasKey(d, k) THEN d ELSE Append(d, [key |-> k, value |-> <<>>])

\* d[k].append(v) for a key d holds.
ListAppend(d, k, v) ==
    [i \in 1..Len(d) |->
        IF d[i].key = k THEN [key |-> k, value |-> Append(d[i].value, v)] ELSE d[i]]

\* Mutant of InitialProjects: projects = {}.
NoInitialProjects == <<>>

\* Line 83: projects = {default_project: []}.
InitialProjects == <<[key |-> default_project, value |-> <<>>]>>

\* The heading lines page texts are made of: "Projet:a", "PROJECT - b ",
\* "projet:Général" (naming the default project) and a heading whose label
\* is blank.
HeadingLines ==
    { <<"P", "r", "o", "j", "e", "t", ":", "a">>,
      <<"P", "R", "O", "J", "E", "C", "T", " ", "-", " ", "b", " ">>,
      <<"p", "r", "o", "j", "e", "t", ":">> \o default_project,
      <<"P", "r", "o", "j", "e", "t", ":", " ">> }

\* Page texts: the empty page, a page of plain text, pages of one and of two
\* heading lines, and plain text before and after a heading line.
PageTexts ==
    {<<>>, <<"a">>} \cup HeadingLines
        \cup {l1 \o <<"\n">> \o l2 : l1 \in HeadingLines, l2 \in HeadingLines}
        \cup { <<"a", "\n", "P", "R", "O", "J", "E", "C", "T", " ", "-", " ", "b", " ">>,
               <<"P", "R", "O", "J", "E", "C", "T", " ", "-", " ", "b", " ", "\n", "a">> }

GroupInit ==
    /\ pages = <<>>
    /\ projects = <<>>
    /\ current_project = <<>>
    /\ group_pc = "call"

\* Lines 82-84: the pattern is compiled, projects and current_project are set.
GroupEnter ==
    /\ group_pc = "call"
    /\ projects' = InitialProjects
    /\ current_project' = default_project
    /\ group_pc' = "loop"
    /\ UNCHANGED pages
    /\ UNCHANGED notGroupVars

\* Lines 86-96: one iteration of the for loop, over the next page of the input.
GroupPage ==
    /\ group_pc = "loop"
    /\ Len(pages) < MaxPages
    /\ \E t \in PageTexts :
        LET p == Page(Len(pages) + 1, t)
            matches == FindIter(p.text, 1)
            label == IF matches # <<>> THEN Strip(LastMatch(matches)) ELSE <<>>
            current == IF label # <<>> THEN label ELSE current_project
            seen == IF label # <<>> THEN SetDefault(projects, current) ELSE projects
        IN  /\ pages' = Append(pages, p)
            /\ current_project' = current
            /\ projects' = ListAppend(SetDefault(seen, current), current, p)
    /\ UNCHANGED group_pc
    /\ UNCHANGED notGroupVars

\* Line 97: the input is exhausted and projects is returned.
GroupReturn ==
    /\ group_pc = "loop"
    /\ group_pc' = "returned"
    /\ UNCHANGED <<pages, projects, current_project>>
    /\ UNCHANGED notGroupVars

GroupNext == GroupEnter \/ GroupPage \/ GroupReturn

SplitIdle ==
    /\ page = Page(1, <<>>)
    /\ max_characters = 1
    /\ overlap = 0
    /\ text = <<>>
    /\ start = 0
    /\ idx = 0
    /\ chunks = <<>>
    /\ split_pc = "idle"

InitGroup == GroupInit /\ SplitIdle /\ AgentIdle /\ LoadIdle /\ BuildIdle

SpecGroup == InitGroup /\ [][GroupNext]_vars

\* ----------------------------------------------- segmentation properties
GroupRunning == group_pc \in {"loop", "returned"}

\* The labels of the heading matches of page p, in order.
Headings(p) == FindIter(p.text, 1)
HasHeading(p) == Headings(p) # <<>>
LastLabel(p) == Strip(Headings(p)[Len(Headings(p))])
\* The last heading of p has a label that is not blank.
NamesProject(p) == HasHeading(p) /\ LastLabel(p) # <<>>

\* The places (group, position) where page p is stored.
PlacesOf(p) ==
    {gk \in (1..Len(projects)) \X (1..MaxPages) :
        gk[2] <= Len(projects[gk[1]].value) /\ projects[gk[1]].value[gk[2]] = p}

InGroup(p, label) ==
    \E g \in 1..Len(projects) :
        projects[g].key = label /\ \E k \in 1..Len(projects[g].value) : projects[g].value[k] = p

SetMax(S) == CHOOSE x \in S : \A y \in S : y <= x
SetMin(S) == CHOOSE x \in S : \A y \in S : x <= y

\* C4: every input page is in exactly one group, once; a group holds input
\* pages only, in their order in the input.
C4_PagesPartitioned ==
    GroupRunning =>
        /\ \A i \in 1..Len(pages) : Cardinality(PlacesOf(pages[i])) = 1
        /\ \A g \in 1..Len(projects) :
            LET v == projects[g].value
            IN  /\ \A k \in 1..Len(v) : v[k].number \in 1..Len(pages) /\ v[k] = pages[v[k].number]
                /\ \A k \in 1..(Len(v) - 1) : v[k].number < v[k + 1].number

\* C4 witness: three pages were grouped into two non-empty groups, one of
\* them holding two pages.
C4_Witness ==
    /\ group_pc = "returned"
    /\ Len(pages) = 3
    /\ \E g, h \in 1..Len(projects) :
        g # h /\ Len(projects[g].value) = 2 /\ Len(projects[h].value) = 1

\* Per page of ps: whether it has a heading.
RECURSIVE HeadingFlagsOf(_)
HeadingFlagsOf(ps) ==
    IF ps = <<>> THEN <<>> ELSE <<HasHeading(Head(ps))>> \o HeadingFlagsOf(Tail(ps))

\* Per page of ps: the trimmed label of its last heading (empty for a page
\* without heading).
RECURSIVE LastLabelsOf(_)
LastLabelsOf(ps) ==
    IF ps = <<>> THEN <<>>
    ELSE LET hs == Headings(Head(ps))
         IN  <<IF hs = <<>> THEN <<>> ELSE Strip(hs[Len(hs)])>> \o LastLabelsOf(Tail(ps))

HeadingFlags == HeadingFlagsOf(pages)
LastLabels == LastLabelsOf(pages)

\* The label of the latest page up to i among the pages js, the default
\* label when there is none.
LatestLabel(labels, js) ==
    IF js = {} THEN default_project ELSE labels[SetMax(js)]

\* C5 as claimed: the last heading match of a page sets the current project
\* for that page and the following pages without heading; pages before any
\* heading go to the default label.
C5_LastHeadingSetsProject ==
    GroupRunning =>
        LET heads == HeadingFlags
            labels == LastLabels
            claimed(i) == LatestLabel(labels, {j \in 1..i : heads[j]})
        IN  /\ \A i \in 1..Len(pages) : InGroup(pages[i], claimed(i))
            /\ current_project = claimed(Len(pages))

\* C5 amended: the last heading match of a page sets the current project when
\* its label is not blank after trimming; a page whose last heading has a
\* blank label leaves the current project unchanged, like a page without
\* heading.
C5_LastNamedHeadingSetsProject ==
    GroupRunning =>
        LET labels == LastLabels
            named(i) == LatestLabel(labels, {j \in 1..i : labels[j] # <<>>})
        IN  /\ \A i \in 1..Len(pages) : InGroup(pages[i], named(i))
            /\ current_project = named(Len(pages))

\* C5 witness: a page with two different headings is followed by a page
\* without heading, and both are in the group of the second heading.
C5_Witness ==
    /\ group_pc = "returned"
    /\ \E i \in 1..(Len(pages) - 1) :
        LET hs == Headings(pages[i])
        IN  /\ Len(hs) = 2
            /\ Strip(hs[1]) # Strip(hs[2])
            /\ Strip(hs[1]) # <<>> /\ Strip(hs[2]) # <<>>
            /\ ~HasHeading(pages[i + 1])
            /\ InGroup(pages[i], Strip(hs[2]))
            /\ InGroup(pages[i + 1], Strip(hs[2]))

\* The trimmed labels of the heading matches hs, in order.
RECURSIVE StripAll(_)
StripAll(hs) ==
    IF hs = <<>> THEN <<>> ELSE <<Strip(Head(hs))>> \o StripAll(Tail(hs))

\* The trimmed labels of all heading matches of ps in scanning order: page
\* by page, top to bottom within a page.
RECURSIVE ScannedLabelsOf(_)
ScannedLabelsOf(ps) ==
    IF ps = <<>> THEN <<>>
    ELSE StripAll(Headings(Head(ps))) \o ScannedLabelsOf(Tail(ps))

ScannedLabels == ScannedLabelsOf(pages)

\* C6 as claimed: the default label is always a key, and the first one; the
\* other keys are heading labels, each once, in the order in which the labels
\* are first seen among all the headings while scanning the pages.
C6_DefaultKeyAndFirstSeenOrder ==
    GroupRunning =>
        LET keys == DictKeys(projects)
            scanned == ScannedLabels
            seen(k) == {i \in 1..Len(scanned) : scanned[i] = k}
            first(g) == IF seen(keys[g]) = {} THEN 0 ELSE SetMin(seen(keys[g]))
        IN  /\ Len(keys) >= 1 /\ keys[1] = default_project
            /\ \A g, h \in 1..Len(keys) : g # h => keys[g] # keys[h]
            /\ \A g \in 2..Len(keys) : first(g) > 0
            /\ \A g, h \in 2..Len(keys) : g < h => first(g) < first(h)

\* C6 amended: the default label is always a key, and the first one; the
\* other keys are the labels that set the current project (the label, not
\* blank after trimming, of the last heading of a page), each once, in the
\* order of the first page that sets them. A heading that is not the last of
\* its page, or whose label is blank, adds no key and does not count for the
\* order.
C6_DefaultKeyAndKeyOrder ==
    GroupRunning =>
        LET keys == DictKeys(projects)
            labels == LastLabels
            naming(k) == {i \in 1..Len(pages) : labels[i] = k}
            first(g) == IF naming(keys[g]) = {} THEN 0 ELSE SetMin(naming(keys[g]))
        IN  /\ Len(keys) >= 1 /\ keys[1] = default_project
            /\ \A g, h \in 1..Len(keys) : g # h => keys[g] # keys[h]
            /\ \A i \in 1..Len(pages) : labels[i] # <<>> => HasKey(projects, labels[i])
            /\ \A g \in 2..Len(keys) : first(g) > 0
            /\ \A g, h \in 2..Len(keys) : g < h => first(g) < first(h)

\* C6 witness: the first page has two headings with different labels, a later
\* page is under the label of the first of them; the default group is empty,
\* and the key of the second heading comes before the key of the first.
C6_Witness ==
    /\ group_pc = "returned"
    /\ Len(projects) = 3
    /\ projects[1].key = default_project
    /\ projects[1].value = <<>>
    /\ Len(pages) >= 2
    /\ LET hs == Headings(pages[1])
       IN  /\ Len(hs) = 2
           /\ Strip(hs[1]) # Strip(hs[2])
           /\ projects[2].key = Strip(hs[2])
           /\ projects[3].key = Strip(hs[1])
           /\ projects[3].value # <<>>

\* ========================================================= index and agent
\* index.py Document, as build_documents makes it (lines 64-71).
Document(content, project, page_number, chunk_index) ==
    [content |-> content,
     metadata |-> [project |-> project, page_number |-> page_number,
                   chunk_index |-> chunk_index]]

\* index.py SearchResult
SearchResult(document, score) == [document |-> document, score |-> score]

\* agent.py SourceAttribution
SourceAttribution(page_number, score, excerpt) ==
    [page_number |-> page_number, score |-> score, excerpt |-> excerpt]

\* agent.py AgentAnswer
AgentAnswer(project, answer, confidence, sources) ==
    [project |-> project, answer |-> answer, confidence |-> confidence,
     sources |-> sources]

\* Python s[:k].
TakeFirst(s, k) ==
    IF k >= 0 THEN SubSeq(s, 1, Min(k, Len(s))) ELSE SubSeq(s, 1, Max(0, Len(s) + k))

\* Mutant of Reverse: the [::-1] is missing.
NotReversed(s) == s

\* Python s[::-1].
Reverse(s) == [i \in 1..Len(s) |-> s[Len(s) + 1 - i]]

Injective(f) == \A i, j \in DOMAIN f : i # j => f[i] # f[j]

\* np.argsort(similarities): the document positions by ascending similarity.
\* The default sort kind is not stable, so positions of equal similarity come
\* in any order.
ArgSorts(sims) ==
    {o \in [1..Len(sims) -> 1..Len(sims)] :
        /\ Injective(o)
        /\ \A i \in 1..(Len(sims) - 1) : sims[o[i]] <= sims[o[i + 1]]}

\* cosine_similarity(query_vec, self.matrix).flatten(): one similarity per
\* indexed document, whatever the fitted TF-IDF space gives.
CosineSimilarities(documents) == [1..Len(documents) -> 0..MaxScore]

RECURSIVE KeepPositive(_, _, _)
KeepPositive(documents, sims, top_indices) ==
    IF top_indices = <<>> THEN <<>>
    ELSE LET i == Head(top_indices)
             rest == KeepPositive(documents, sims, Tail(top_indices))
         IN  IF sims[i] > 0 THEN <<SearchResult(documents[i], sims[i])>> \o rest ELSE rest

\* index.py lines 40-42: a blank query.
BlankQuery(query) == Strip(query) = <<>>

\* index.py lines 44-51, for the similarities sims and the argsort order.
SearchRanked(documents, sims, order, k) ==
    KeepPositive(documents, sims, TakeFirst(Reverse(order), k))

\* Confidence in thousandths of a similarity in quarters:
\* 1 / (1 + exp(-6 * (score - 0.25))) at 0.25, 0.5, 0.75 and 1.
ScoreToConfidence(score) ==
    IF score <= 0 THEN 0
    ELSE CASE score = 1 -> 500
           [] score = 2 -> 818
           [] score = 3 -> 953
           [] OTHER -> 989

\* agent.py line 144: the length of an excerpt.
ExcerptLength == 300

\* Agent._build_context: one block per result, in result order.
BuildContext(results) ==
    [i \in 1..Len(results) |->
        [page_number |-> results[i].document.metadata.page_number,
         score |-> results[i].score,
         excerpt |-> Strip(results[i].document.content)]]

\* GeminiClient.build_prompt with instructions=None.
BuildPrompt(q, context) ==
    [instructions |-> "default", context |-> context, question |-> q]

\* An answer text is the sequence of its parts.
\* GeminiClient.generate in offline mode: the fixed prefix and the prompt.
OfflineText(prompt) == <<"[Mode hors ligne]", prompt>>

\* The text a live model returns, whatever it is.
LiveText == <<"live">>

\* Mutant of NoInformationAnswer: the empty case is answered like a hit.
NoInformationAnswerAsHit(project) ==
    AgentAnswer(project, OfflineText(BuildPrompt(<<>>, <<>>)), 500, <<>>)

\* agent.py lines 126-133.
NoInformationAnswer(project) ==
    AgentAnswer(project, <<"Aucune information pertinente trouvée dans ce projet.">>, 0, <<>>)

RECURSIVE SumConfidence(_)
SumConfidence(results) ==
    IF results = <<>> THEN 0
    ELSE ScoreToConfidence(Head(results).score) + SumConfidence(Tail(results))

\* Mutant of MaxConfidence: the average of the confidences.
MeanConfidence(results) == SumConfidence(results) \div Len(results)

\* max(index.score_to_confidence(result.score) for result in search_results)
MaxConfidence(results) ==
    SetMax({ScoreToConfidence(results[i].score) : i \in 1..Len(results)})

\* Mutant of Sources: the excerpt is not cut.
SourcesUncut(results) ==
    [i \in 1..Len(results) |->
        SourceAttribution(results[i].document.metadata.page_number,
                          results[i].score,
                          Strip(results[i].document.content))]

\* agent.py lines 140-147.
Sources(results) ==
    [i \in 1..Len(results) |->
        SourceAttribution(results[i].document.metadata.page_number,
                          results[i].score,
                          Strip(Slice(results[i].document.content, 0, ExcerptLength)))]

\* Mutant of AppendResponse: the list is rebuilt on every project.
OverwriteResponses(rs, a) == <<a>>

\* responses.append(...)
AppendResponse(rs, a) == Append(rs, a)

\* The project names and document contents agents are built from.
ProjectNames == {default_project, <<"a">>, <<"b">>}
\* A content longer than an excerpt, with whitespace where the excerpt is cut.
LongContent == [i \in 1..(ExcerptLength + 2) |-> IF i = ExcerptLength THEN " " ELSE "c"]

DocContents == <<  <<"x", " ">>, LongContent, <<" ", "y">>, <<"w", "w">> >>

\* The documents of a project index: n documents, one per page.
IndexDocuments(project, n) ==
    [j \in 1..n |-> Document(DocContents[((j - 1) % 4) + 1], project, j, 0)]

RECURSIVE SumSizes(_)
SumSizes(d) == IF d = <<>> THEN 0 ELSE Len(Head(d).value) + SumSizes(Tail(d))

\* The project_indexes dicts: distinct projects in any construction order,
\* every index over at least one document (DocumentIndex.__init__, lines
\* 33-36), at most MaxDocs documents in all.
ProjectIndexes ==
    LET shapes == UNION {[1..n -> ProjectNames \X (1..MaxDocs)] : n \in 0..Min(MaxDocs, 3)}
        dicts == {[i \in 1..Len(sh) |->
                      [key |-> sh[i][1], value |-> IndexDocuments(sh[i][1], sh[i][2])]] :
                  sh \in shapes}
    IN  {d \in dicts : Injective(DictKeys(d)) /\ SumSizes(d) <= MaxDocs}

Questions == { <<>>, <<" ">>, <<" ", "q">> }

\* Agent(project_indexes=..., gemini=...) is called; the client is not set yet.
AgentInit ==
    /\ project_indexes \in ProjectIndexes
    /\ gemini = "mock"
    /\ question = <<>>
    /\ top_k = 0
    /\ responses = <<>>
    /\ next_project = 0
    /\ similarities = <<>>
    /\ search_results = <<>>
    /\ generate_calls = <<>>
    /\ answer_pc = "new"
    /\ fitted = <<>>
    /\ previous = <<>>

\* agent.py lines 42-43: the agent holds the client it was given, or a
\* GeminiClient() it makes (gemini_client.py lines 27-36): offline ("mock")
\* without an API key, live with one.
AgentConstruct ==
    /\ answer_pc = "new"
    /\ gemini' \in {"mock", "live"}
    /\ answer_pc' = "idle"
    /\ UNCHANGED <<project_indexes, fitted, previous, question, top_k, responses, next_project,
                   similarities, search_results, generate_calls>>
    /\ UNCHANGED notAgentVars

\* agent.py line 43 with gemini_client.py lines 31-38: no client was given,
\* an API key is set and the SDK cannot be set up; the RuntimeError leaves
\* the constructor and there is no agent.
AgentConstructFails ==
    /\ answer_pc = "new"
    /\ answer_pc' = "RuntimeError: Failed to initialise Gemini client"
    /\ UNCHANGED <<project_indexes, gemini, fitted, previous, question, top_k, responses,
                   next_project, similarities, search_results, generate_calls>>
    /\ UNCHANGED notAgentVars

\* gemini_client.py lines 51-69: the errors that leave generate on the live
\* backend. generate_content is called without try/except, so what it raises
\* (connectivity, quota, ...) leaves with its own type, written "Exception";
\* a response without text raises the RuntimeError of line 69.
GenerateErrors == {"Exception", "RuntimeError"}

\* agent.py line 138: the error of generate has left answer.
AnswerFailed == answer_pc \in GenerateErrors

\* The answer loop is followed on agents of at most MaxDocs documents.
Answerable == SumSizes(project_indexes) <= MaxDocs

\* agent.py lines 113-122: answer(question, top_k=k) is called.
AnswerCall ==
    /\ answer_pc \in {"idle", "returned"} \cup GenerateErrors
    /\ Answerable
    /\ question' \in Questions
    /\ top_k' \in -1..MaxTopK
    /\ responses' = <<>>
    /\ next_project' = 1
    /\ similarities' = <<>>
    /\ search_results' = <<>>
    /\ generate_calls' = <<>>
    /\ answer_pc' = "loop"
    /\ UNCHANGED <<project_indexes, gemini, fitted, previous>>
    /\ UNCHANGED notAgentVars

\* agent.py line 124 with index.py lines 40-42: the search of the next
\* project's index for a blank question.
AnswerSearchBlank ==
    /\ answer_pc = "loop"
    /\ next_project <= Len(project_indexes)
    /\ BlankQuery(question)
    /\ similarities' = <<>>
    /\ search_results' = <<>>
    /\ answer_pc' = "searched"
    /\ UNCHANGED <<project_indexes, gemini, fitted, previous, question, top_k, responses, next_project,
                   generate_calls>>
    /\ UNCHANGED notAgentVars

\* agent.py line 124 with index.py lines 43-51: the search of the next
\* project's index, when its fitted space is not held: the similarities are
\* whatever the space gives.
AnswerSearch ==
    /\ answer_pc = "loop"
    /\ next_project <= Len(project_indexes)
    /\ next_project \notin DOMAIN fitted
    /\ ~BlankQuery(question)
    /\ LET documents == project_indexes[next_project].value
       IN  \E sims \in CosineSimilarities(documents) :
           \E order \in ArgSorts(sims) :
               /\ similarities' = sims
               /\ search_results' = SearchRanked(documents, sims, order, top_k)
    /\ answer_pc' = "searched"
    /\ UNCHANGED <<project_indexes, gemini, fitted, previous, question, top_k, responses, next_project,
                   generate_calls>>
    /\ UNCHANGED notAgentVars

\* agent.py lines 125-134: nothing was found.
AnswerNoInformation ==
    /\ answer_pc = "searched"
    /\ search_results = <<>>
    /\ responses' = AppendResponse(responses,
                        NoInformationAnswer(project_indexes[next_project].key))
    /\ next_project' = next_project + 1
    /\ answer_pc' = "loop"
    /\ UNCHANGED <<project_indexes, gemini, fitted, previous, question, top_k, similarities, search_results,
                   generate_calls>>
    /\ UNCHANGED notAgentVars

\* agent.py lines 136-155: the backend generates a text and the answer is
\* packaged.  The mock client returns its offline text.
AnswerGenerate ==
    /\ answer_pc = "searched"
    /\ search_results # <<>>
    /\ LET project == project_indexes[next_project].key
           prompt == BuildPrompt(question, BuildContext(search_results))
           raw_text == IF gemini = "mock" THEN OfflineText(prompt) ELSE LiveText
       IN  /\ generate_calls' = Append(generate_calls, project)
           /\ responses' = AppendResponse(responses,
                               AgentAnswer(project, raw_text, MaxConfidence(search_results),
                                           Sources(search_results)))
    /\ next_project' = next_project + 1
    /\ answer_pc' = "loop"
    /\ UNCHANGED <<project_indexes, gemini, fitted, previous, question, top_k, similarities, search_results>>
    /\ UNCHANGED notAgentVars

\* Mutant of AnswerBackendFailure: the failure is caught and answered with
\* the no-information text, and the loop goes on.
AnswerBackendFailureSwallowed ==
    /\ answer_pc = "searched"
    /\ search_results # <<>>
    /\ gemini = "live"
    /\ generate_calls' = Append(generate_calls, project_indexes[next_project].key)
    /\ responses' = Append(responses, NoInformationAnswer(project_indexes[next_project].key))
    /\ next_project' = next_project + 1
    /\ answer_pc' = "loop"
    /\ UNCHANGED <<project_indexes, gemini, fitted, previous, question, top_k, similarities, search_results>>
    /\ UNCHANGED notAgentVars

\* agent.py line 138 with gemini_client.py lines 51-69: the live backend
\* raises or returns no text; the error leaves answer as it is.
AnswerBackendFailure ==
    /\ answer_pc = "searched"
    /\ search_results # <<>>
    /\ gemini = "live"
    /\ generate_calls' = Append(generate_calls, project_indexes[next_project].key)
    /\ answer_pc' \in GenerateErrors
    /\ UNCHANGED <<project_indexes, gemini, fitted, previous, question, top_k, responses, next_project,
                   similarities, search_results>>
    /\ UNCHANGED notAgentVars

\* agent.py line 156: every project was handled.
AnswerReturn ==
    /\ answer_pc = "loop"
    /\ next_project > Len(project_indexes)
    /\ answer_pc' = "returned"
    /\ UNCHANGED <<project_indexes, gemini, fitted, previous, question, top_k, responses, next_project,
                   similarities, search_results, generate_calls>>
    /\ UNCHANGED notAgentVars

AgentNext ==
    \/ AgentConstruct
    \/ AgentConstructFails
    \/ AnswerCall
    \/ AnswerSearchBlank
    \/ AnswerSearch
    \/ AnswerNoInformation
    \/ AnswerGenerate
    \/ AnswerBackendFailure
    \/ AnswerReturn

InitAgent == AgentInit /\ SplitIdle /\ GroupIdle /\ LoadIdle /\ BuildIdle

SpecAgent == InitAgent /\ [][AgentNext]_vars

\* ------------------------------------------ repeated calls on one agent
\* The same answer loop, followed over repeated calls on one agent: what the
\* fitted TF-IDF space of an index gives for a question is fixed when the
\* index is built (index.py lines 37-38), and every search reads it.
NonBlankQuestions == {q \in Questions : ~BlankQuery(q)}

\* What one fitted index gives for each question: the similarities of
\* line 44 and the argsort order of line 45.
FittedSpaces(documents) ==
    [NonBlankQuestions ->
        UNION {{[similarities |-> sims, order |-> o] : o \in ArgSorts(sims)} :
               sims \in CosineSimilarities(documents)}]

RECURSIVE FittedFor(_)
FittedFor(d) ==
    IF d = <<>> THEN {<<>>}
    ELSE {<<f>> \o rest : f \in FittedSpaces(Head(d).value), rest \in FittedFor(Tail(d))}

\* Most documents an agent followed over repeated calls holds.
MaxRepeatDocs == 2

\* Agent(project_indexes=..., gemini=...) is called over indexes already
\* fitted.
RepeatInit ==
    /\ project_indexes \in {d \in ProjectIndexes : SumSizes(d) <= MaxRepeatDocs}
    /\ fitted \in FittedFor(project_indexes)
    /\ gemini = "mock"
    /\ question = <<>>
    /\ top_k = 0
    /\ responses = <<>>
    /\ next_project = 0
    /\ similarities = <<>>
    /\ search_results = <<>>
    /\ generate_calls = <<>>
    /\ answer_pc = "new"
    /\ previous = <<>>

\* The call that has just returned, as the caller may keep it.
ReturnedCall == [question |-> question, top_k |-> top_k, responses |-> responses]

\* agent.py lines 113-122: answer is called again on an agent whose fitted
\* spaces are held; the caller of an agent with the offline backend keeps
\* the result of the first call that returned.
RepeatCall ==
    /\ answer_pc \in {"idle", "returned"} \cup GenerateErrors
    /\ Answerable
    /\ Len(fitted) = Len(project_indexes)
    /\ previous' = (IF answer_pc = "returned" /\ gemini = "mock" /\ previous = <<>>
                       THEN <<ReturnedCall>>
                       ELSE previous)
    /\ question' \in Questions
    /\ top_k' \in -1..MaxTopK
    /\ responses' = <<>>
    /\ next_project' = 1
    /\ similarities' = <<>>
    /\ search_results' = <<>>
    /\ generate_calls' = <<>>
    /\ answer_pc' = "loop"
    /\ UNCHANGED <<project_indexes, gemini, fitted>>
    /\ UNCHANGED notAgentVars

\* Mutant of RepeatSearch: the search sorts the index's documents in place.
RepeatSearchReorders ==
    /\ answer_pc = "loop"
    /\ next_project <= Len(project_indexes)
    /\ next_project \in DOMAIN fitted
    /\ ~BlankQuery(question)
    /\ LET documents == project_indexes[next_project].value
           space == fitted[next_project][question]
       IN  /\ similarities' = space.similarities
           /\ search_results' = SearchRanked(documents, space.similarities, space.order, top_k)
           /\ project_indexes' = [project_indexes EXCEPT ![next_project].value =
                                     [i \in 1..Len(documents) |-> documents[space.order[i]]]]
    /\ answer_pc' = "searched"
    /\ UNCHANGED <<gemini, fitted, previous, question, top_k, responses, next_project,
                   generate_calls>>
    /\ UNCHANGED notAgentVars

\* agent.py line 124 with index.py lines 43-51: the search of the next
\* project's index in its fitted space.
RepeatSearch ==
    /\ answer_pc = "loop"
    /\ next_project <= Len(project_indexes)
    /\ next_project \in DOMAIN fitted
    /\ ~BlankQuery(question)
    /\ LET documents == project_indexes[next_project].value
           space == fitted[next_project][question]
       IN  /\ similarities' = space.similarities
           /\ search_results' = SearchRanked(documents, space.similarities, space.order, top_k)
    /\ answer_pc' = "searched"
    /\ UNCHANGED <<project_indexes, gemini, fitted, previous, question, top_k, responses,
                   next_project, generate_calls>>
    /\ UNCHANGED notAgentVars

RepeatNext ==
    \/ AgentConstruct
    \/ AgentConstructFails
    \/ RepeatCall
    \/ AnswerSearchBlank
    \/ RepeatSearch
    \/ AnswerNoInformation
    \/ AnswerGenerate
    \/ AnswerBackendFailure
    \/ AnswerReturn

InitRepeat == RepeatInit /\ SplitIdle /\ GroupIdle /\ LoadIdle /\ BuildIdle

SpecRepeat == InitRepeat /\ [][RepeatNext]_vars

\* ======================================================== page extraction
\* raw_text.splitlines(), for texts whose only line boundary is "\n".
RECURSIVE SplitLines(_)
SplitLines(s) ==
    IF s = <<>> THEN <<>>
    ELSE LET ends == {i \in 1..Len(s) : s[i] = "\n"}
             k == IF ends = {} THEN Len(s) + 1 ELSE SetMin(ends)
         IN  <<SubSeq(s, 1, k - 1)>> \o SplitLines(SubSeq(s, k + 1, Len(s)))

\* Line 41: the lines that are not blank, each stripped.
RECURSIVE CleanedLines(_)
CleanedLines(lines) ==
    IF lines = <<>> THEN <<>>
    ELSE IF Strip(Head(lines)) # <<>>
            THEN <<Strip(Head(lines))>> \o CleanedLines(Tail(lines))
            ELSE CleanedLines(Tail(lines))

\* "\n".join(lines)
RECURSIVE JoinLines(_)
JoinLines(lines) ==
    IF lines = <<>> THEN <<>>
    ELSE IF Len(lines) = 1 THEN Head(lines)
    ELSE Head(lines) \o <<"\n">> \o JoinLines(Tail(lines))

\* Lines 41-42.
Normalise(raw_text) == JoinLines(CleanedLines(SplitLines(raw_text)))

\* The raw texts an extractor returns: empty, plain, padded, blank lines only,
\* two lines with padding and with a blank line between, a line with an
\* inner space.
RawTexts ==
    { <<>>, <<"a">>, <<" ", "a", " ">>, <<"\n">>, <<" ", "\n">>,
      <<"a", "\n", " ", "a">>, <<"a", "\n", "\n", "a", " ">>, <<"a", " ", "a">> }

\* What extract_text does without raising: it returns a text or None.
ExtractReturns == {Extracted("text", t) : t \in RawTexts} \cup {Extracted("None", <<>>)}

\* load_pdf(path) is called on a path that exists or not; the PDF has
\* page_count physical pages.
LoadInit ==
    /\ path_exists \in BOOLEAN
    /\ page_count \in 0..MaxPages
    /\ extracted = Extracted("unset", <<>>)
    /\ load_pages = <<>>
    /\ load_pc = "call"

\* Lines 33-35.
LoadMissing ==
    /\ load_pc = "call"
    /\ ~path_exists
    /\ load_pc' = "FileNotFoundError"
    /\ UNCHANGED <<path_exists, page_count, extracted, load_pages>>
    /\ UNCHANGED notLoadVars

\* Lines 33-38.
LoadOpen ==
    /\ load_pc = "call"
    /\ path_exists
    /\ load_pc' = "loop"
    /\ UNCHANGED <<path_exists, page_count, extracted, load_pages>>
    /\ UNCHANGED notLoadVars

\* Lines 39-43: extract_text returns for the next physical page; `or ""`
\* turns None (and "") into the empty text.
LoadPage ==
    /\ load_pc = "loop"
    /\ Len(load_pages) < page_count
    /\ \E o \in ExtractReturns :
        LET raw_text == IF o.kind = "None" THEN <<>> ELSE o.text
        IN  /\ extracted' = o
            /\ load_pages' = Append(load_pages,
                                    Page(Len(load_pages) + 1, Normalise(raw_text)))
    /\ UNCHANGED <<path_exists, page_count, load_pc>>
    /\ UNCHANGED notLoadVars

\* Line 40: extract_text raises for the next physical page; nothing in
\* load_pdf catches the exception, which leaves the call.
LoadPageRaises ==
    /\ load_pc = "loop"
    /\ Len(load_pages) < page_count
    /\ extracted' = Extracted("raises", <<>>)
    /\ load_pc' = "Exception"
    /\ UNCHANGED <<path_exists, page_count, load_pages>>
    /\ UNCHANGED notLoadVars

\* Line 44.
LoadReturn ==
    /\ load_pc = "loop"
    /\ Len(load_pages) = page_count
    /\ load_pc' = "returned"
    /\ UNCHANGED <<path_exists, page_count, extracted, load_pages>>
    /\ UNCHANGED notLoadVars

LoadNext == LoadMissing \/ LoadOpen \/ LoadPage \/ LoadPageRaises \/ LoadReturn

InitLoad == LoadInit /\ SplitIdle /\ GroupIdle /\ AgentIdle /\ BuildIdle

SpecLoad == InitLoad /\ [][LoadNext]_vars

\* ------------------------------------------------- extraction properties
\* C14: for a path that exists, a page whose extraction fails (extract_text
\* returns None or raises) becomes a Page with empty text, the call is never
\* left by an exception, and it returns one Page per physical page, numbered
\* 1..n in physical order.
C14_ExtractionFailureDegrades ==
    /\ load_pc # "Exception"
    /\ \A i \in 1..Len(load_pages) : load_pages[i].number = i
    /\ (load_pages # <<>> /\ extracted.kind \in {"None", "raises"})
            => load_pages[Len(load_pages)].text = <<>>
    /\ (path_exists /\ load_pc \notin {"call", "loop"})
            => (load_pc = "returned" /\ Len(load_pages) = page_count)

\* ====================================================== agent construction
\* Agent.from_pages(pages_by_project, chunk_size=, overlap=) and
\* Agent.from_pdf(path, section=, chunk_size=, overlap=).  Every page is
\* chunked by the chunker above, called with the page and the arguments.

\* Largest chunk_size argument tried (the smallest is 0); overlap is tried
\* from -1 to MaxChunkSize - 1.
MaxChunkSize == 2
\* Most pages given to a construction, over all projects.
MaxBuildPages == 2

\* from_pdf line 57: group_pages_by_project(pages), lines 82-97 as a fold
\* over the pages.
RECURSIVE GroupFold(_, _, _)
GroupFold(ps, projs, current) ==
    IF ps = <<>> THEN projs
    ELSE LET p == Head(ps)
             matches == FindIter(p.text, 1)
             label == IF matches # <<>> THEN Strip(LastMatch(matches)) ELSE <<>>
             cur == IF label # <<>> THEN label ELSE current
             seen == IF label # <<>> THEN SetDefault(projs, cur) ELSE projs
         IN  GroupFold(Tail(ps), ListAppend(SetDefault(seen, cur), cur, p), cur)

GroupPagesByProject(ps) == GroupFold(ps, InitialProjects, default_project)

\* iter_project_pages: the (project, page) pairs in dict order, then page order.
RECURSIVE IterProjectPages(_)
IterProjectPages(d) ==
    IF d = <<>> THEN <<>>
    ELSE [i \in 1..Len(Head(d).value) |-> [project |-> Head(d).key, page |-> Head(d).value[i]]]
            \o IterProjectPages(Tail(d))

\* iter_chunks_by_project lines 78-79: the chunks of one page, each with
\* the page's project.
YieldChunks(project, cs) == [i \in 1..Len(cs) |-> [project |-> project, chunk |-> cs[i]]]

\* Lines 95-102 with build_documents.
BuildDocuments(pcs) ==
    [i \in 1..Len(pcs) |->
        Document(pcs[i].chunk.content, pcs[i].project,
                 pcs[i].chunk.page_number, pcs[i].chunk.index)]

\* Mutant of GroupDocuments: project_documents[project] = [document].
RECURSIVE GroupDocumentsReplacing(_, _)
GroupDocumentsReplacing(docs, d) ==
    IF docs = <<>> THEN d
    ELSE LET k == Head(docs).metadata.project
         IN  GroupDocumentsReplacing(Tail(docs),
                                     ListAppend(SetDefaultOverwrite(d, k), k, Head(docs)))

\* Lines 103-105: project_documents.setdefault(project, []).append(document)
\* for every document, starting from the dict d.
RECURSIVE GroupDocuments(_, _)
GroupDocuments(docs, d) ==
    IF docs = <<>> THEN d
    ELSE LET k == Head(docs).metadata.project
         IN  GroupDocuments(Tail(docs), ListAppend(SetDefault(d, k), k, Head(docs)))

\* Lines 106-110: the entries of project_documents that pass `if docs`.
RECURSIVE WithDocuments(_)
WithDocuments(d) ==
    IF d = <<>> THEN <<>>
    ELSE IF Head(d).value # <<>> THEN <<Head(d)>> \o WithDocuments(Tail(d))
    ELSE WithDocuments(Tail(d))

\* The page texts constructions are made of: an empty page and a page of
\* several chunks; for from_pdf also pages opening a project and a page
\* naming a section.
BuildTexts == { <<>>, <<"a", "b", "c">> }
BuildPdfTexts ==
    BuildTexts \cup { <<"P", "r", "o", "j", "e", "t", ":", "a">>,
                       <<"P", "R", "O", "J", "E", "T", "-", "b">>,
                       <<"S", "e", "c", "t", "i", "o", "n", "2">> }

\* The section arguments of from_pdf: None, "2" and "2." (which names the
\* same pages with its dot removed).
Sections == { <<>>, << <<"2">> >>, << <<"2", ".">> >> }

BuildPageLists(n) == SeqsUpTo([number : 1..2, text : BuildTexts], n)

RECURSIVE CountPages(_)
CountPages(d) == IF d = <<>> THEN 0 ELSE Len(Head(d).value) + CountPages(Tail(d))

\* The pages_by_project dicts given to from_pages: one or two projects in
\* any order, each with any pages, also none.
PagesByProject ==
    LET one == {<<[key |-> k, value |-> ps]>> :
                    k \in ProjectNames, ps \in BuildPageLists(MaxBuildPages)}
        two == {<<[key |-> k1, value |-> ps1], [key |-> k2, value |-> ps2]>> :
                    k1 \in ProjectNames, k2 \in ProjectNames,
                    ps1 \in BuildPageLists(MaxBuildPages),
                    ps2 \in BuildPageLists(MaxBuildPages)}
    IN  {<<>>} \cup one
            \cup {d \in two : d[1].key # d[2].key /\ CountPages(d) <= MaxBuildPages}

\* The pages load_pdf returns: numbered 1..n in order.
LoadedPages ==
    {[i \in 1..Len(ts) |-> Page(i, ts[i])] : ts \in SeqsUpTo(BuildPdfTexts, MaxBuildPages)}

BuildInit ==
    /\ \/ /\ build_entry = "from_pages"
          /\ pages_by_project \in PagesByProject
          /\ section = <<>>
       \/ /\ build_entry = "from_pdf"
          /\ pages_by_project = <<>>
          /\ section \in Sections
    /\ build_pages = <<>>
    /\ chunk_size \in 0..MaxChunkSize
    /\ chunk_overlap \in -1..(MaxChunkSize - 1)
    /\ pending = <<>>
    /\ project_chunks = <<>>
    /\ built_documents = <<>>
    /\ project_documents = <<>>
    /\ build_pc = "call"

\* from_pdf line 55: load_pdf returns the pages of the PDF.
BuildLoad ==
    /\ build_pc = "call"
    /\ build_entry = "from_pdf"
    /\ build_pages' \in LoadedPages
    /\ build_pc' = "loaded"
    /\ UNCHANGED <<build_entry, section, pages_by_project, chunk_size, chunk_overlap, pending,
                   project_chunks, built_documents, project_documents>>
    /\ UNCHANGED <<chunkVars, groupVars, agentVars, loadVars>>

\* from_pdf line 55: load_pdf raises, FileNotFoundError for a missing path
\* (pdf_reader.py lines 34-35) or the exception of a page's extractor
\* (line 40), and the exception leaves from_pdf.
BuildLoadRaises ==
    /\ build_pc = "call"
    /\ build_entry = "from_pdf"
    /\ build_pc' \in {"FileNotFoundError", "Exception"}
    /\ UNCHANGED <<build_entry, section, build_pages, pages_by_project, chunk_size,
                   chunk_overlap, pending, project_chunks, built_documents,
                   project_documents>>
    /\ UNCHANGED <<chunkVars, groupVars, agentVars, loadVars>>

\* from_pdf line 56.
BuildFilter ==
    /\ build_pc = "loaded"
    /\ build_pages' = FilterPagesBySection(build_pages, section)
    /\ build_pc' = "filtered"
    /\ UNCHANGED <<build_entry, section, pages_by_project, chunk_size, chunk_overlap, pending,
                   project_chunks, built_documents, project_documents>>
    /\ UNCHANGED <<chunkVars, groupVars, agentVars, loadVars>>

\* from_pdf line 57.
BuildGroup ==
    /\ build_pc = "filtered"
    /\ pages_by_project' = GroupPagesByProject(build_pages)
    /\ build_pc' = "grouped"
    /\ UNCHANGED <<build_entry, section, build_pages, chunk_size, chunk_overlap, pending,
                   project_chunks, built_documents, project_documents>>
    /\ UNCHANGED <<chunkVars, groupVars, agentVars, loadVars>>

\* Lines 88-94 (58-60): list(...) starts to draw from iter_chunks_by_project
\* over iter_project_pages.
BuildEnter ==
    /\ \/ build_pc = "call" /\ build_entry = "from_pages"
       \/ build_pc = "grouped"
    /\ pending' = IterProjectPages(pages_by_project)
    /\ build_pc' = "chunks"
    /\ UNCHANGED <<build_entry, section, build_pages, pages_by_project, chunk_size, chunk_overlap,
                   project_chunks, built_documents, project_documents>>
    /\ UNCHANGED <<chunkVars, groupVars, agentVars, loadVars>>

\* chunker.py line 78: split_page_into_chunks is called on the next page.
BuildSplit ==
    /\ build_pc = "chunks"
    /\ pending # <<>>
    /\ page' = Head(pending).page
    /\ max_characters' = chunk_size
    /\ overlap' = chunk_overlap
    /\ text' = <<>>
    /\ start' = 0
    /\ idx' = 0
    /\ chunks' = <<>>
    /\ split_pc' = "call"
    /\ build_pc' = "split"
    /\ UNCHANGED <<build_entry, section, build_pages, pages_by_project, chunk_size, chunk_overlap,
                   pending, project_chunks, built_documents, project_documents>>
    /\ UNCHANGED <<groupVars, agentVars, loadVars>>

\* chunker.py lines 78-79: the call has returned and its chunks are yielded.
BuildYield ==
    /\ build_pc = "split"
    /\ split_pc = "returned"
    /\ project_chunks' = project_chunks \o YieldChunks(Head(pending).project, chunks)
    /\ pending' = Tail(pending)
    /\ split_pc' = "idle"
    /\ build_pc' = "chunks"
    /\ UNCHANGED <<build_entry, section, build_pages, pages_by_project, chunk_size, chunk_overlap,
                   built_documents, project_documents>>
    /\ UNCHANGED <<page, max_characters, overlap, text, start, idx, chunks>>
    /\ UNCHANGED <<groupVars, agentVars, loadVars>>

\* The chunker's exception leaves the construction.
BuildSplitRaises ==
    /\ build_pc = "split"
    /\ split_pc \in {"ValueError", "MemoryError"}
    /\ build_pc' = split_pc
    /\ UNCHANGED <<build_entry, section, build_pages, pages_by_project, chunk_size, chunk_overlap,
                   pending, project_chunks, built_documents, project_documents>>
    /\ UNCHANGED <<chunkVars, groupVars, agentVars, loadVars>>

\* Lines 95-102 (61-68).
BuildDocumentList ==
    /\ build_pc = "chunks"
    /\ pending = <<>>
    /\ built_documents' = BuildDocuments(project_chunks)
    /\ build_pc' = "documents"
    /\ UNCHANGED <<build_entry, section, build_pages, pages_by_project, chunk_size, chunk_overlap,
                   pending, project_chunks, project_documents>>
    /\ UNCHANGED <<chunkVars, groupVars, agentVars, loadVars>>

\* Lines 103-105 (69-71).
BuildProjectDocuments ==
    /\ build_pc = "documents"
    /\ project_documents' = GroupDocuments(built_documents, <<>>)
    /\ build_pc' = "project_documents"
    /\ UNCHANGED <<build_entry, section, build_pages, pages_by_project, chunk_size, chunk_overlap,
                   pending, project_chunks, built_documents>>
    /\ UNCHANGED <<chunkVars, groupVars, agentVars, loadVars>>

\* Lines 106-110 (72-76): a DocumentIndex over every list that passes
\* `if docs`; DocumentIndex.__init__ (index.py lines 34-35) raises on an
\* empty list.  An index is its documents list.
BuildIndexes ==
    /\ build_pc = "project_documents"
    /\ LET kept == WithDocuments(project_documents)
       IN  IF \E i \in 1..Len(kept) : kept[i].value = <<>>
               THEN /\ build_pc' = "ValueError: DocumentIndex requires at least one document"
                    /\ UNCHANGED project_indexes
               ELSE /\ build_pc' = "indexed"
                    /\ project_indexes' = kept
    /\ UNCHANGED <<build_entry, section, build_pages, pages_by_project, chunk_size, chunk_overlap,
                   pending, project_chunks, built_documents, project_documents>>
    /\ UNCHANGED <<gemini, question, top_k, responses, next_project, similarities,
                   search_results, generate_calls, answer_pc, fitted, previous>>
    /\ UNCHANGED <<chunkVars, groupVars, loadVars>>

\* index.py lines 37-38: fit_transform raises ValueError (empty vocabulary)
\* when no document of an index holds a word the vectorizer keeps.
BuildVocabularyError ==
    /\ build_pc = "project_documents"
    /\ WithDocuments(project_documents) # <<>>
    /\ build_pc' = "ValueError: empty vocabulary"
    /\ UNCHANGED <<build_entry, section, build_pages, pages_by_project, chunk_size, chunk_overlap,
                   pending, project_chunks, built_documents, project_documents>>
    /\ UNCHANGED <<chunkVars, groupVars, agentVars, loadVars>>

\* Line 111 (77) with agent.py line 43 and gemini_client.py lines 31-38: no
\* client was given, an API key is set and the SDK cannot be set up; the
\* RuntimeError leaves the construction and no agent is returned.
BuildClientFails ==
    /\ build_pc = "indexed"
    /\ build_pc' = "RuntimeError: Failed to initialise Gemini client"
    /\ UNCHANGED <<build_entry, section, build_pages, pages_by_project, chunk_size,
                   chunk_overlap, pending, project_chunks, built_documents,
                   project_documents>>
    /\ UNCHANGED <<chunkVars, groupVars, agentVars, loadVars>>

\* Line 111 (77): the agent is made over project_indexes, with the client
\* given or the GeminiClient() that Agent.__init__ makes.
BuildReturn ==
    /\ build_pc = "indexed"
    /\ gemini' \in {"mock", "live"}
    /\ answer_pc' = "idle"
    /\ build_pc' = "returned"
    /\ UNCHANGED <<build_entry, section, build_pages, pages_by_project, chunk_size, chunk_overlap,
                   pending, project_chunks, built_documents, project_documents>>
    /\ UNCHANGED <<project_indexes, question, top_k, responses, next_project, similarities,
                   search_results, generate_calls, fitted, previous>>
    /\ UNCHANGED <<chunkVars, groupVars, loadVars>>

BuildNext ==
    \/ BuildLoad
    \/ BuildLoadRaises
    \/ BuildFilter
    \/ BuildGroup
    \/ BuildEnter
    \/ BuildSplit
    \/ SplitNext
    \/ BuildYield
    \/ BuildSplitRaises
    \/ BuildDocumentList
    \/ BuildProjectDocuments
    \/ BuildIndexes
    \/ BuildVocabularyError
    \/ BuildClientFails
    \/ BuildReturn

InitBuild == BuildInit /\ SplitIdle /\ GroupIdle /\ AgentIdle /\ LoadIdle

SpecBuild == InitBuild /\ [][BuildNext]_vars

\* --------------------------------------------------- search properties
\* The index.search call of the current loop iteration has returned.
Searched == answer_pc = "searched"
SearchedDocuments == project_indexes[next_project].value

\* The position of a returned document in the index's document list.
DocPos(d) == CHOOSE j \in 1..Len(SearchedDocuments) : SearchedDocuments[j] = d

Returned(j) == \E a \in 1..Len(search_results) : search_results[a].document = SearchedDocuments[j]

PositiveDocs == {j \in 1..Len(SearchedDocuments) : similarities[j] > 0}

\* C7: for a non-blank query and top_k >= 1 the results are at most top_k
\* indexed documents, each once and with its own similarity, all with score
\* > 0, by non-increasing score, and they are the highest-scoring ones: no
\* document left out scores higher than a returned one, and a document with
\* a positive score is left out only when top_k documents were returned.
C7_TopKHighestScoring ==
    (Searched /\ ~BlankQuery(question) /\ top_k >= 1) =>
        LET R == search_results
        IN  /\ Len(R) <= top_k
            /\ \A a \in 1..Len(R) :
                /\ R[a].score > 0
                /\ \E j \in 1..Len(SearchedDocuments) :
                    R[a].document = SearchedDocuments[j] /\ R[a].score = similarities[j]
            /\ \A a, b \in 1..Len(R) : a < b =>
                R[a].score >= R[b].score /\ R[a].document # R[b].document
            /\ \A j \in 1..Len(SearchedDocuments) : ~Returned(j) =>
                \A a \in 1..Len(R) : similarities[j] <= R[a].score
            /\ Len(R) = Min(top_k, Cardinality(PositiveDocs))

\* C7 witness: a search with top_k = 2 over three documents returned two
\* results of different scores and left a document out.
C7_Witness ==
    /\ Searched
    /\ top_k = 2
    /\ Len(SearchedDocuments) = 3
    /\ Len(search_results) = 2
    /\ search_results[1].score > search_results[2].score

\* C8: documents of equal similarity are ranked in index order: a tied
\* document earlier in the index comes first in the results, and is the one
\* kept when the top_k cut falls inside the tie.
C8_TiesInIndexOrder ==
    (Searched /\ ~BlankQuery(question) /\ top_k >= 1) =>
        LET R == search_results
        IN  /\ \A a, b \in 1..Len(R) :
                (a < b /\ R[a].score = R[b].score) => DocPos(R[a].document) < DocPos(R[b].document)
            /\ \A j \in 1..Len(SearchedDocuments) : \A a \in 1..Len(R) :
                (~Returned(j) /\ similarities[j] = R[a].score) => DocPos(R[a].document) < j

\* ---------------------------------------------------- agent properties
NoInformationText == <<"Aucune information pertinente trouvée dans ce projet.">>

\* C9: a blank question makes every search return nothing, and whenever the
\* search of a project returned nothing, the project's answer is the fixed
\* no-information text with confidence 0 and no sources, and the backend is
\* not called for it.
C9_NoInformationWithoutBackend ==
    /\ []((Searched /\ BlankQuery(question)) => search_results = <<>>)
    /\ [][(Searched /\ search_results = <<>>) =>
            /\ Len(responses') = Len(responses) + 1
            /\ SubSeq(responses', 1, Len(responses)) = responses
            /\ LET r == responses'[Len(responses')]
               IN  /\ r.project = project_indexes[next_project].key
                   /\ r.answer = NoInformationText
                   /\ r.confidence = 0
                   /\ r.sources = <<>>
            /\ generate_calls' = generate_calls]_vars

\* C9 witness: for a question that is not blank one project got the
\* no-information answer and another one a generated answer.
C9_Witness ==
    /\ answer_pc = "returned"
    /\ ~BlankQuery(question)
    /\ Len(generate_calls) = 1
    /\ \E i \in 1..Len(responses) :
        /\ responses[i].answer = NoInformationText
        /\ \A c \in 1..Len(generate_calls) : generate_calls[c] # responses[i].project

\* C10: a call of answer that returns gives one AgentAnswer per key of
\* project_indexes, in the order of the keys, each with its project's name.
C10_OneAnswerPerProject ==
    answer_pc = "returned" =>
        /\ Len(responses) = Len(project_indexes)
        /\ \A i \in 1..Len(responses) : responses[i].project = project_indexes[i].key

\* C10 witness: an agent over three projects has returned three answers.
C10_Witness ==
    /\ answer_pc = "returned"
    /\ Len(project_indexes) = 3
    /\ Len(responses) = 3


\* The answer call has appended an answer generated from search_results.
AnsweredFromResults == answer_pc \in {"loop", "returned"} /\ search_results # <<>>
LastResponse == responses[Len(responses)]

\* C11: a backend failure happens in live mode only and ends the answer call
\* with the error: the failing project has got no answer, nothing is
\* returned and no later project is processed (the next step is a new call);
\* every generate call either gives that project's generated answer or ends
\* the call with the error; generate is called at most once per project per
\* call; the mock client never fails and gives the offline text built from
\* the prompt.
C11_BackendFailurePropagates ==
    /\ [](AnswerFailed =>
            /\ gemini = "live"
            /\ Len(responses) = next_project - 1
            /\ generate_calls # <<>>
            /\ generate_calls[Len(generate_calls)] = project_indexes[next_project].key)
    /\ [](Injective(generate_calls))
    /\ [](gemini = "mock" => ~AnswerFailed)
    /\ []((gemini = "mock" /\ AnsweredFromResults) =>
            LastResponse.answer
                = <<"[Mode hors ligne]", BuildPrompt(question, BuildContext(search_results))>>)
    /\ [][AnswerFailed =>
            (answer_pc' = "loop" /\ next_project' = 1 /\ responses' = <<>>)]_vars
    /\ [][Len(generate_calls') > Len(generate_calls) =>
            \/ AnswerFailed' /\ responses' = responses
            \/ /\ answer_pc' = "loop"
               /\ Len(responses') = Len(responses) + 1
               /\ responses'[Len(responses')].project = project_indexes[next_project].key
               /\ responses'[Len(responses')].sources # <<>>]_vars

\* C11 witness: with a live backend the first project was answered and the
\* generate call for the second project produced no text.
C11_Witness ==
    /\ answer_pc = "RuntimeError"
    /\ next_project = 2
    /\ Len(responses) = 1
    /\ Len(generate_calls) = 2
    /\ Len(project_indexes) = 3


\* C12: score_to_confidence is 0 for a score <= 0 and non-decreasing; the
\* confidence of an answer generated from a non-empty retrieval is the
\* maximum of score_to_confidence over the retrieved results, which is the
\* confidence of the first result, and it is greater than 0.
C12_ConfidenceIsMaximum ==
    /\ \A s \in -1..MaxScore : s <= 0 => ScoreToConfidence(s) = 0
    /\ \A s, t \in -1..MaxScore : s <= t => ScoreToConfidence(s) <= ScoreToConfidence(t)
    /\ AnsweredFromResults =>
        LET c == LastResponse.confidence
            R == search_results
        IN  /\ \A i \in 1..Len(R) : c >= ScoreToConfidence(R[i].score)
            /\ \E i \in 1..Len(R) : c = ScoreToConfidence(R[i].score)
            /\ c = ScoreToConfidence(R[1].score)
            /\ c > 0

\* C12 witness: an answer was generated from two results of different scores.
C12_Witness ==
    /\ AnsweredFromResults
    /\ Len(search_results) = 2
    /\ search_results[1].score # search_results[2].score
    /\ LastResponse.confidence = 818


\* The first n characters of s.
FirstChars(s, n) == [i \in 1..Min(n, Len(s)) |-> s[i]]

\* C13 as claimed: an answer generated from a non-empty retrieval has one
\* source per result, in result order, with the page number and score of the
\* result and the first 300 characters of its content as excerpt.
C13_SourcesCarryFirstCharacters ==
    AnsweredFromResults =>
        LET S == LastResponse.sources
            R == search_results
        IN  /\ Len(S) = Len(R)
            /\ \A i \in 1..Len(R) :
                /\ S[i].page_number = R[i].document.metadata.page_number
                /\ S[i].score = R[i].score
                /\ S[i].excerpt = FirstChars(R[i].document.content, ExcerptLength)

\* C13 amended: the excerpt is the first 300 characters of the content
\* without their leading and trailing whitespace.
C13_SourcesCarryStrippedExcerpt ==
    AnsweredFromResults =>
        LET S == LastResponse.sources
            R == search_results
        IN  /\ Len(S) = Len(R)
            /\ \A i \in 1..Len(R) :
                /\ S[i].page_number = R[i].document.metadata.page_number
                /\ S[i].score = R[i].score
                /\ S[i].excerpt = Strip(FirstChars(R[i].document.content, ExcerptLength))

\* C13 witness: an answer has two sources, one of them for a content longer
\* than 300 characters, cut and then trimmed to 299 characters.
C13_Witness ==
    /\ AnsweredFromResults
    /\ Len(LastResponse.sources) = 2
    /\ \E i \in 1..2 :
        /\ Len(search_results[i].document.content) > ExcerptLength
        /\ Len(LastResponse.sources[i].excerpt) = ExcerptLength - 1

\* C16: an answer call, however it ends (answers, the no-information
\* answer, a backend failure), leaves the project indexes and their fitted
\* spaces as they were built; and with the offline backend a later call
\* with the question and top_k of the agent's first returned call, which is
\* any call, returns the answers that call returned.
C16_IndexesUnchangedAndRepeatable ==
    /\ [][project_indexes' = project_indexes /\ fitted' = fitted]_vars
    /\ []((/\ answer_pc = "returned"
           /\ gemini = "mock"
           /\ previous # <<>>
           /\ previous[1].question = question
           /\ previous[1].top_k = top_k) => responses = previous[1].responses)
C16_Witness ==
    /\ answer_pc = "returned"
    /\ gemini = "mock"
    /\ previous # <<>>
    /\ previous[1].question = question
    /\ previous[1].top_k = top_k
    /\ ~BlankQuery(question)
    /\ Len(responses) = 2
    /\ responses[1].sources # <<>>
    /\ responses[2].sources = <<>>

\* C15: every chunk of split_page_into_chunks has non-empty content of at
\* most max_characters characters that is a contiguous substring of the page
\* text, carries the page's number, and the chunks carry the indices
\* 0, 1, 2, ... in emission order; an empty page text returns no chunk.
C15_ChunksWellFormed ==
    /\ \A i \in 1..Len(chunks) :
        LET c == chunks[i]
        IN  /\ c.content # <<>>
            /\ Len(c.content) <= max_characters
            /\ \E a \in 0..Len(page.text) :
                   Slice(page.text, a, a + Len(c.content)) = c.content
            /\ c.page_number = page.number
            /\ c.index = i - 1
    /\ (split_pc = "returned" /\ page.text = <<>>) => chunks = <<>>
C15_Witness ==
    /\ split_pc = "returned"
    /\ Len(chunks) = 3
    /\ overlap = 1
    /\ max_characters = 2
    /\ chunks[2].content # chunks[3].content

\* ------------------------------------------------ construction properties
\* The index dict is made: lines 106-110 have run.
Built == build_pc \in {"indexed", "returned"}

\* The project yields at least one chunk.
YieldsChunk(k) == \E i \in 1..Len(project_chunks) : project_chunks[i].project = k

\* The keys of the dict d whose project yields a chunk, in dict order.
RECURSIVE KeysYielding(_)
KeysYielding(d) ==
    IF d = <<>> THEN <<>>
    ELSE IF YieldsChunk(Head(d).key) THEN <<Head(d).key>> \o KeysYielding(Tail(d))
    ELSE KeysYielding(Tail(d))

\* The chunks of project k among pcs, in emission order.
RECURSIVE ChunksOfProject(_, _)
ChunksOfProject(pcs, k) ==
    IF pcs = <<>> THEN <<>>
    ELSE IF Head(pcs).project = k THEN <<Head(pcs)>> \o ChunksOfProject(Tail(pcs), k)
    ELSE ChunksOfProject(Tail(pcs), k)

\* The pages of ps that have text, in order.
RECURSIVE TextPages(_)
TextPages(ps) ==
    IF ps = <<>> THEN <<>>
    ELSE IF Head(ps).text # <<>> THEN <<Head(ps)>> \o TextPages(Tail(ps))
    ELSE TextPages(Tail(ps))

\* The documents of docs that are the first chunk of a page, in order.
RECURSIVE FirstChunks(_)
FirstChunks(docs) ==
    IF docs = <<>> THEN <<>>
    ELSE IF Head(docs).metadata.chunk_index = 0 THEN <<Head(docs)>> \o FirstChunks(Tail(docs))
    ELSE FirstChunks(Tail(docs))

\* docs are the chunks of the pages ps in page order then chunk order: the
\* pages that have text each open a run of chunks 0, 1, 2, ... of that page,
\* run after run in the order of the pages.
PageThenChunkOrder(docs, ps) ==
    LET firsts == FirstChunks(docs)
        with_text == TextPages(ps)
    IN  /\ docs # <<>> => docs[1].metadata.chunk_index = 0
        /\ \A j \in 1..(Len(docs) - 1) :
            \/ docs[j + 1].metadata.chunk_index = 0
            \/ /\ docs[j + 1].metadata.chunk_index = docs[j].metadata.chunk_index + 1
               /\ docs[j + 1].metadata.page_number = docs[j].metadata.page_number
        /\ Len(firsts) = Len(with_text)
        /\ \A j \in 1..Len(firsts) :
            /\ firsts[j].metadata.page_number = with_text[j].number
            /\ firsts[j].content = Slice(with_text[j].text, 0, chunk_size)

\* C17: the built project_indexes has one index per project that yields at
\* least one chunk, in the order of the projects, each index holding exactly
\* that project's chunks in page order then chunk order; no index is empty
\* and DocumentIndex never raises its empty-input ValueError; a project
\* without pages or with only empty-text pages, such as an empty default
\* group, is not a key of project_indexes (answer gives one AgentAnswer per
\* key, C10, so none for such a project).
C17_IndexesOnlyForProjectsWithChunks ==
    /\ build_pc # "ValueError: DocumentIndex requires at least one document"
    /\ Built =>
        /\ DictKeys(project_indexes) = KeysYielding(pages_by_project)
        /\ \A i \in 1..Len(project_indexes) :
            LET k == project_indexes[i].key
                docs == project_indexes[i].value
            IN  /\ docs # <<>>
                /\ docs = BuildDocuments(ChunksOfProject(project_chunks, k))
                /\ \A j \in 1..Len(docs) : docs[j].metadata.project = k
                /\ PageThenChunkOrder(docs, pages_by_project[DictGet(pages_by_project, k)].value)
        /\ \A g \in 1..Len(pages_by_project) :
            HasKey(project_indexes, pages_by_project[g].key)
                <=> TextPages(pages_by_project[g].value) # <<>>
\* C17 witness: from_pdf has built an agent from a page opening project a
\* and a page without text: the default group is empty and has no index, and
\* the index of a holds the chunks of its first page only.
C17_Witness ==
    /\ build_pc = "returned"
    /\ build_entry = "from_pdf"
    /\ pages_by_project[1] = [key |-> default_project, value |-> <<>>]
    /\ Len(pages_by_project) = 2
    /\ Len(pages_by_project[2].value) = 2
    /\ pages_by_project[2].value[2].text = <<>>
    /\ Len(project_indexes) = 1
    /\ Len(project_indexes[1].value) = 4

\* ------------------------------------------------------------- the system
Init == InitChunk \/ InitGroup \/ InitAgent \/ InitRepeat \/ InitLoad \/ InitBuild
Next == SplitNext \/ GroupNext \/ AgentNext \/ RepeatNext \/ LoadNext \/ BuildNext
Spec == Init /\ [][Next]_vars

====
